---- MODULE Spec2Model ----
(***************************************************************************)
(* A model of vedacore/misc/registry.py (the Registry singleton and the    *)
(* two config-driven builders) and of                                      *)
(* vedatad/datasets/pipelines/auto_augment.py (AutoAugment).               *)
(*                                                                         *)
(* Python values are modelled with their run-time type: a value is a       *)
(* record [t, v] (t = "str" or "int"), a dict-or-not argument is a record  *)
(* [t, d] (t = "dict", "None" or "other"; d the mapping), a class is a     *)
(* record [isclass, name, id].  An exception is the name of its Python     *)
(* class; "none" is a normal return.                                       *)
(***************************************************************************)
EXTENDS Integers, Sequences, FiniteSets, TLC

VARIABLES module_dict, registered, call, heap, inst

vars == <<module_dict, registered, call, heap, inst>>

(***************************************************************************)
(* Values.                                                                 *)
(***************************************************************************)

\* The two module categories used: the default one of get/register_module
\* and the one AutoAugment and Compose use.
ModuleNames == {"module", "pipeline"}

DefaultModule == "module"

\* Three classes; A1 and A2 are two different classes whose __name__ is "A".
A1 == [isclass |-> TRUE, name |-> "A", id |-> "A1"]

A2 == [isclass |-> TRUE, name |-> "A", id |-> "A2"]

B1 == [isclass |-> TRUE, name |-> "B", id |-> "B1"]

Classes == {A1, A2, B1}

\* An object that is not a class (an instance, a function).
NotAClass == [isclass |-> FALSE, name |-> "A", id |-> "obj"]

\* The value of a variable that holds no class.
NoClass == [isclass |-> FALSE, name |-> "", id |-> "NoClass"]

ClassNames == {"A", "B"}

EmptyDict == [k \in {} |-> NoClass]

\* Error taxonomy of the specification, as the exception classes the code raises.
InvalidArgumentType == "TypeError"

MissingRequiredField == "KeyError"

NotFound == "KeyError"

DuplicateRegistration == "KeyError"

Validation == "AssertionError"

(***************************************************************************)
(* Registry.                                                               *)
(***************************************************************************)

\* Registry.get: the class registered under (module_name, cls_name), or KeyError.
Get(md, cls_name, module_name) ==
    IF module_name \notin DOMAIN md
    THEN [exc |-> "KeyError", val |-> NoClass]
    ELSE LET dd == md[module_name] IN
         IF cls_name \notin DOMAIN dd
         THEN [exc |-> "KeyError", val |-> NoClass]
         ELSE [exc |-> "none", val |-> dd[cls_name]]

\* Registry.__contains__: get(key) is not None, with the default category;
\* an exception of get is not caught.
Contains(md, key) ==
    LET r == Get(md, key, DefaultModule) IN
    IF r.exc # "none"
    THEN [exc |-> r.exc, val |-> FALSE]
    ELSE [exc |-> "none", val |-> TRUE]

\* dict.setdefault(module_name, dict()) on _module_dict.
SetDefaultCategory(md, module_name) ==
    IF module_name \in DOMAIN md
    THEN md
    ELSE [m \in DOMAIN md \cup {module_name} |->
            IF m = module_name THEN EmptyDict ELSE md[m]]

\* dd[cls_name] = cls inside category module_name.
PutClass(md, module_name, cls_name, cls) ==
    [md EXCEPT ![module_name] =
        [n \in DOMAIN md[module_name] \cup {cls_name} |->
            IF n = cls_name THEN cls ELSE md[module_name][n]]]

\* A registration that overwrites an entry already present.
RegisterModuleOverwrite(md, cls, module_name) ==
    IF ~cls.isclass
    THEN [exc |-> "TypeError", md |-> md]
    ELSE LET md1 == SetDefaultCategory(md, module_name) IN
         [exc |-> "none", md |-> PutClass(md1, module_name, cls.name, cls)]

\* Registry._register_module.
RegisterModule(md, cls, module_name) ==
    IF ~cls.isclass
    THEN [exc |-> "TypeError", md |-> md]
    ELSE LET cls_name == cls.name
             md1 == SetDefaultCategory(md, module_name)
         IN  IF cls_name \in DOMAIN md1[module_name]
             THEN [exc |-> "KeyError", md |-> md1]
             ELSE [exc |-> "none", md |-> PutClass(md1, module_name, cls_name, cls)]

\* The record of the last operation: its name, its inputs and its outcome.
NoCall == [op |-> "none"]

\* Registry(): __new__ returns the existing _instance (set at line 91), and
\* Python then runs __init__ on the returned object.
RegistryNew ==
    /\ module_dict' = EmptyDict
    /\ call' = [op |-> "Registry", before |-> module_dict]
    /\ UNCHANGED <<registered, heap, inst>>

\* registry.register_module(module_name)(cls).
Register(cls, module_name) ==
    LET r == RegisterModule(module_dict, cls, module_name) IN
    /\ module_dict' = r.md
    /\ registered' = IF r.exc = "none"
                     THEN registered \cup {<<module_name, cls.name, cls>>}
                     ELSE registered
    /\ call' = [op |-> "register", cls |-> cls, module_name |-> module_name,
                before |-> module_dict, exc |-> r.exc]
    /\ UNCHANGED <<heap, inst>>

\* registry.get(cls_name, module_name).
GetCall(cls_name, module_name) ==
    LET r == Get(module_dict, cls_name, module_name) IN
    /\ call' = [op |-> "get", cls_name |-> cls_name, module_name |-> module_name,
                before |-> module_dict, exc |-> r.exc, ret |-> r.val]
    /\ UNCHANGED <<module_dict, registered, heap, inst>>

\* key in registry.
ContainsCall(key) ==
    LET r == Contains(module_dict, key) IN
    /\ call' = [op |-> "contains", key |-> key, before |-> module_dict,
                exc |-> r.exc, ret |-> r.val]
    /\ UNCHANGED <<module_dict, registered, heap, inst>>

NoHeap == <<>>

NoInst == [built |-> FALSE]

\* The state after the module is imported: registry = Registry() at line 91.
Init ==
    /\ module_dict = EmptyDict
    /\ registered = {}
    /\ call = NoCall
    /\ heap = NoHeap
    /\ inst = NoInst

DoRegistryNew == RegistryNew

DoRegister == \E cls \in Classes \cup {NotAClass}, m \in ModuleNames : Register(cls, m)

DoGet == \E n \in ClassNames, m \in ModuleNames : GetCall(n, m)

DoContains == \E n \in ClassNames : ContainsCall(n)

Next ==
    \/ DoRegistryNew
    \/ DoRegister
    \/ DoGet
    \/ DoContains

Spec == Init /\ [][Next]_vars

(***************************************************************************)
(* Config-driven construction.                                             *)
(***************************************************************************)

\* A key that a dict does not hold, used to enumerate dicts.
Absent == [t |-> "absent", v |-> ""]

StrVal(s) == [t |-> "str", v |-> s]

IntVal(s) == [t |-> "int", v |-> s]

\* The dict holding the keys of f whose value is not Absent.
MkDict(f) == [k \in {x \in DOMAIN f : f[x] # Absent} |-> f[k]]

Dict(d) == [t |-> "dict", d |-> d]

None == [t |-> "None", d |-> EmptyDict]

\* An argument that is neither a dict nor None (a list, a string).
NotADict == [t |-> "other", d |-> EmptyDict]

\* utils.is_str: isinstance(x, str), as the error text of line 118 states.
IsStr(x) == x.t = "str"

\* isinstance(registry, Registry).
IsRegistry(registry) == registry = "Registry"

\* args = cfg with no copy: args is the caller's dict itself.
DictCopyAlias(h, src, dst) == [ref |-> src, h |-> h]

\* dict.copy(): a new dict object dst with the items of src; the objects of
\* a call live in the call's heap h, so that a write through one name is seen
\* through every name of the same object.
DictCopy(h, src, dst) == [ref |-> dst, h |-> [h EXCEPT ![dst] = h[src]]]

\* dict.pop(key) on the object ref.
DictPop(h, ref, key) ==
    [h EXCEPT ![ref] = [k \in DOMAIN h[ref] \ {key} |-> h[ref][k]]]

\* for name, value in default_args.items(): args.setdefault(name, value).
SetDefaults(h, ref, da) ==
    [h EXCEPT ![ref] = [k \in DOMAIN h[ref] \cup DOMAIN da |->
                            IF k \in DOMAIN h[ref] THEN h[ref][k] ELSE da[k]]]

\* The outcome of a build that raised e, the caller's cfg then being c.
BuildFailed(e, c, default_args) ==
    [exc |-> e, cls |-> NoClass, kwargs |-> EmptyDict,
     cfg |-> c, default_args |-> default_args]

\* build_from_cfg(cfg, registry, module_name, default_args); md is the
\* _module_dict of the registry when registry is the Registry.  The objects
\* cfg and args live in the heap h of the call; obj_cls(**args) is taken to
\* accept every keyword, the instance being the pair (cls, kwargs).
BuildFromCfg(cfg, md, registry, module_name, default_args) ==
    IF cfg.t # "dict"
    THEN BuildFailed("TypeError", cfg, default_args)
    ELSE IF "typename" \notin DOMAIN cfg.d
    THEN BuildFailed("KeyError", cfg, default_args)
    ELSE IF ~IsRegistry(registry)
    THEN BuildFailed("TypeError", cfg, default_args)
    ELSE IF ~(default_args.t = "dict" \/ default_args.t = "None")
    THEN BuildFailed("TypeError", cfg, default_args)
    ELSE LET h0 == [o \in {"cfg", "args"} |-> IF o = "cfg" THEN cfg.d ELSE EmptyDict]
             c == DictCopy(h0, "cfg", "args")
             obj_type == c.h[c.ref]["typename"]
             h1 == DictPop(c.h, c.ref, "typename")
         IN  IF IsStr(obj_type)
             THEN LET r == Get(md, obj_type.v, module_name) IN
                  IF r.exc # "none"
                  THEN BuildFailed(r.exc, Dict(h1["cfg"]), default_args)
                  ELSE LET h2 == IF default_args.t # "None"
                                 THEN SetDefaults(h1, c.ref, default_args.d)
                                 ELSE h1
                       IN  [exc |-> "none", cls |-> r.val, kwargs |-> h2[c.ref],
                            cfg |-> Dict(h2["cfg"]), default_args |-> default_args]
             ELSE BuildFailed("TypeError", Dict(h1["cfg"]), default_args)

\* An attribute lookup that fails as a dict lookup does.
GetAttrKeyError(module, name) ==
    IF name \in DOMAIN module
    THEN [exc |-> "none", val |-> module[name]]
    ELSE [exc |-> "KeyError", val |-> NoClass]

\* getattr(module, obj_type) on a namespace exposing the names DOMAIN module.
GetAttr(module, name) ==
    IF name \in DOMAIN module
    THEN [exc |-> "none", val |-> module[name]]
    ELSE [exc |-> "AttributeError", val |-> NoClass]

\* build_from_module(cfg, module, default_args).
BuildFromModule(cfg, module, default_args) ==
    IF cfg.t # "dict"
    THEN BuildFailed("TypeError", cfg, default_args)
    ELSE IF "typename" \notin DOMAIN cfg.d
    THEN BuildFailed("KeyError", cfg, default_args)
    ELSE IF ~(default_args.t = "dict" \/ default_args.t = "None")
    THEN BuildFailed("TypeError", cfg, default_args)
    ELSE LET h0 == [o \in {"cfg", "args"} |-> IF o = "cfg" THEN cfg.d ELSE EmptyDict]
             c == DictCopy(h0, "cfg", "args")
             obj_type == c.h[c.ref]["typename"]
             h1 == DictPop(c.h, c.ref, "typename")
         IN  IF IsStr(obj_type)
             THEN LET r == GetAttr(module, obj_type.v) IN
                  IF r.exc # "none"
                  THEN BuildFailed(r.exc, Dict(h1["cfg"]), default_args)
                  ELSE LET h2 == IF default_args.t # "None"
                                 THEN SetDefaults(h1, c.ref, default_args.d)
                                 ELSE h1
                       IN  [exc |-> "none", cls |-> r.val, kwargs |-> h2[c.ref],
                            cfg |-> Dict(h2["cfg"]), default_args |-> default_args]
             ELSE BuildFailed("TypeError", Dict(h1["cfg"]), default_args)

\* The namespace that exposes exactly the classes of category m of md.
Namespace(md, m) == IF m \in DOMAIN md THEN md[m] ELSE EmptyDict

\* The configuration records and default_args the builders are called with.
CfgInputs ==
    {NotADict} \cup
    {Dict(MkDict([typename |-> tn, a |-> a])) :
        tn \in {Absent, StrVal("A"), StrVal("B"), IntVal("7")},
        a \in {Absent, IntVal("1")}}

DefaultArgsInputs ==
    {None, NotADict} \cup
    {Dict(MkDict([typename |-> tn, a |-> a, b |-> b])) :
        tn \in {Absent, StrVal("B")},
        a \in {Absent, IntVal("99")},
        b \in {Absent, IntVal("98")}}

RegistryInputs == {"Registry", "other"}

BuildFromCfgCall(cfg, registry, module_name, default_args) ==
    LET r == BuildFromCfg(cfg, module_dict, registry, module_name, default_args) IN
    /\ call' = [op |-> "build_from_cfg", cfg |-> cfg, registry |-> registry,
                module_name |-> module_name, default_args |-> default_args,
                before |-> module_dict, exc |-> r.exc, cls |-> r.cls,
                kwargs |-> r.kwargs, cfg_after |-> r.cfg,
                default_args_after |-> r.default_args]
    /\ UNCHANGED <<module_dict, registered, heap, inst>>

\* build_from_module with the namespace of category module_name as module.
BuildFromModuleCall(cfg, module_name, default_args) ==
    LET module == Namespace(module_dict, module_name)
        r == BuildFromModule(cfg, module, default_args)
    IN
    /\ call' = [op |-> "build_from_module", cfg |-> cfg, registry |-> "Registry",
                module_name |-> module_name, default_args |-> default_args,
                before |-> module_dict, exc |-> r.exc, cls |-> r.cls,
                kwargs |-> r.kwargs, cfg_after |-> r.cfg,
                default_args_after |-> r.default_args]
    /\ UNCHANGED <<module_dict, registered, heap, inst>>

\* The classes registered while the builders are exercised: the name "A" can
\* resolve to a different class in each category, the name "B" to none.
BuildClasses == {A1, A2}

DoRegisterClass == \E cls \in BuildClasses, m \in ModuleNames : Register(cls, m)

DoBuildFromCfg ==
    \E cfg \in CfgInputs, registry \in RegistryInputs, m \in ModuleNames,
       da \in DefaultArgsInputs : BuildFromCfgCall(cfg, registry, m, da)

DoBuildFromModule ==
    \E cfg \in CfgInputs, m \in ModuleNames, da \in DefaultArgsInputs :
        BuildFromModuleCall(cfg, m, da)

NextBuild ==
    \/ DoRegisterClass
    \/ DoBuildFromCfg
    \/ DoBuildFromModule

SpecBuild == Init /\ [][NextBuild]_vars

(***************************************************************************)
(* AutoAugment.                                                            *)
(*                                                                         *)
(* Lists are objects of a heap: heap[r] is free, a list (of references for *)
(* a list of policies, of records for a policy) or some other object.  The *)
(* caller's policies list is the object CallerRoot; the instance holds a   *)
(* reference to its own policies list and, by value, its list transforms.  *)
(***************************************************************************)

\* The most policies the caller's list holds.
MaxPolicies == 2

MaxRefs == 2 * (MaxPolicies + 1)

Refs == 1..MaxRefs

\* The reference of the list the caller passes as policies.
CallerRoot == 1

FreeObj == [kind |-> "free", items |-> <<>>]

ListObj(items) == [kind |-> "list", items |-> items]

\* An object that is not a list (None, a dict, a number).
OtherObj == [kind |-> "other", items |-> <<>>]

FreeRefs(h) == {r \in DOMAIN h : h[r].kind = "free"}

\* The k-th free reference, in increasing order.
NthFree(h, k) ==
    CHOOSE r \in FreeRefs(h) : Cardinality({x \in FreeRefs(h) : x < r}) = k - 1

\* What the list of policies ref holds: the policies, by value, in order.
PoliciesView(h, ref) ==
    [i \in 1..Len(h[ref].items) |-> h[h[ref].items[i]]]

\* copy.copy(policies): a new outer list whose items are the same policy
\* objects.
ShallowCopy(h, ref) ==
    LET outer == NthFree(h, 1) IN
    [ref |-> outer, h |-> [h EXCEPT ![outer] = ListObj(h[ref].items)]]

\* copy.deepcopy(policies): a new outer list of new policy lists holding
\* copies of the records.
DeepCopy(h, ref) ==
    LET n == Len(h[ref].items)
        outer == NthFree(h, 1)
        inner == [i \in 1..n |-> NthFree(h, i + 1)]
    IN  [ref |-> outer,
         h |-> [r \in DOMAIN h |->
                   IF r = outer THEN ListObj(inner)
                   ELSE IF \E i \in 1..n : inner[i] = r
                   THEN h[h[ref].items[CHOOSE i \in 1..n : inner[i] = r]]
                   ELSE h[r]]]

\* The three asserts of AutoAugment.__init__ on the argument policies
\* (isList: isinstance(policies, list); ref: the list when it is one).
PoliciesValid(h, policies) ==
    /\ policies.isList
    /\ Len(h[policies.ref].items) > 0
    /\ \A i \in 1..Len(h[policies.ref].items) :
          LET policy == h[h[policies.ref].items[i]] IN
          /\ policy.kind = "list"
          /\ Len(policy.items) > 0
          /\ \A j \in 1..Len(policy.items) :
                /\ policy.items[j].t = "dict"
                /\ "type" \in DOMAIN policy.items[j].d

\* Compose(policy): every record is built through the registry, category
\* 'pipeline', in order; the first failure is the failure of Compose.  The
\* result is [exc, transforms].
RECURSIVE ComposeNew(_, _)
ComposeNew(md, records) ==
    IF records = <<>>
    THEN [exc |-> "none", transforms |-> <<>>]
    ELSE LET b == BuildFromCfg(Head(records), md, "Registry", "pipeline", None) IN
         IF b.exc # "none"
         THEN [exc |-> b.exc, transforms |-> <<>>]
         ELSE LET rest == ComposeNew(md, Tail(records)) IN
              IF rest.exc # "none"
              THEN rest
              ELSE [exc |-> "none",
                    transforms |-> <<[cls |-> b.cls, kwargs |-> b.kwargs]>>
                                       \o rest.transforms]

\* [Compose(policy) for policy in self.policies]: [exc, transforms].
RECURSIVE ComposeAll(_, _)
ComposeAll(md, policies) ==
    IF policies = <<>>
    THEN [exc |-> "none", transforms |-> <<>>]
    ELSE LET c == ComposeNew(md, Head(policies).items) IN
         IF c.exc # "none"
         THEN c
         ELSE LET rest == ComposeAll(md, Tail(policies)) IN
              IF rest.exc # "none"
              THEN rest
              ELSE [exc |-> "none", transforms |-> <<c.transforms>> \o rest.transforms]

\* A transform applied to a data record [ok, trace]: it fails on a record it
\* cannot handle and else leaves its mark on the record.
TransformCall(t, data) ==
    IF ~data.ok
    THEN [exc |-> "KeyError", ret |-> data]
    ELSE [exc |-> "none",
          ret |-> [data EXCEPT !.trace = Append(data.trace, t.cls.id)]]

\* Compose.__call__: the transforms applied in order; a failure propagates.
RECURSIVE ComposeCall(_, _)
ComposeCall(transforms, data) ==
    IF transforms = <<>>
    THEN [exc |-> "none", ret |-> data]
    ELSE LET r == TransformCall(Head(transforms), data) IN
         IF r.exc # "none" THEN r ELSE ComposeCall(Tail(transforms), r.ret)

NoData == [ok |-> FALSE, trace |-> <<>>]

\* A choice that always takes the first pipeline.
ChoiceFirst(transforms) == {1}

\* np.random.choice(self.transforms): any of the pipelines, by its index.
Choice(transforms) == 1..Len(transforms)

\* AutoAugment(policies).  One instance is followed: inst is the object the
\* caller holds once __init__ has returned.  When __init__ raises, the caller
\* gets no object and the copies made so far are unreachable, so the heap is
\* left as it was.
Construct(policies) ==
    /\ ~inst.built
    /\ IF ~PoliciesValid(heap, policies)
       THEN /\ call' = [op |-> "AutoAugment", isList |-> policies.isList,
                        policies |-> IF policies.isList
                                     THEN PoliciesView(heap, policies.ref)
                                     ELSE <<>>,
                        before |-> module_dict, exc |-> "AssertionError"]
            /\ UNCHANGED <<heap, inst>>
       ELSE LET c == DeepCopy(heap, policies.ref)
                t == ComposeAll(module_dict, PoliciesView(c.h, c.ref))
            IN  /\ call' = [op |-> "AutoAugment", isList |-> policies.isList,
                            policies |-> PoliciesView(heap, policies.ref),
                            before |-> module_dict, exc |-> t.exc]
                /\ IF t.exc # "none"
                   THEN UNCHANGED <<heap, inst>>
                   ELSE /\ heap' = c.h
                        /\ inst' = [built |-> TRUE, policies |-> c.ref,
                                    transforms |-> t.transforms]
    /\ UNCHANGED <<module_dict, registered>>

\* AutoAugment.__call__(results) when the random choice is pipeline i.
ApplyChosen(i, data) ==
    /\ inst.built
    /\ i \in Choice(inst.transforms)
    /\ LET r == ComposeCall(inst.transforms[i], data) IN
       call' = [op |-> "apply", chosen |-> i, data |-> data,
                previous |-> IF call.op = "apply" THEN call.chosen ELSE 0,
                before |-> module_dict, exc |-> r.exc, ret |-> r.ret]
    /\ UNCHANGED <<module_dict, registered, heap, inst>>

\* AutoAugment.__call__(results).
Apply(data) == \E i \in Refs : ApplyChosen(i, data)

\* The references the instance holds into the heap.
InstRefs ==
    IF inst.built
    THEN {inst.policies} \cup {heap[inst.policies].items[i] :
                                  i \in 1..Len(heap[inst.policies].items)}
    ELSE {}

\* policies.append(obj): the caller appends a new policy object to its list.
CallerAppend(obj) ==
    /\ Len(heap[CallerRoot].items) < MaxPolicies
    /\ LET r == NthFree(heap, 1) IN
       heap' = [heap EXCEPT ![r] = obj,
                            ![CallerRoot].items = Append(@, r)]
    /\ call' = [op |-> "caller"]
    /\ UNCHANGED <<module_dict, registered, inst>>

\* policies.pop(): the caller removes the last policy of its list; the
\* object is freed when nothing else refers to it.
CallerPop ==
    /\ Len(heap[CallerRoot].items) > 0
    /\ LET items == heap[CallerRoot].items
           r == items[Len(items)]
       IN  heap' = [heap EXCEPT ![CallerRoot].items = SubSeq(items, 1, Len(items) - 1),
                                ![r] = IF r \in InstRefs THEN @ ELSE FreeObj]
    /\ call' = [op |-> "caller"]
    /\ UNCHANGED <<module_dict, registered, inst>>

\* del rec['type'] on a record.
DelType(rec) == Dict([k \in DOMAIN rec.d \ {"type"} |-> rec.d[k]])

\* del policies[i][j]['type']: the caller edits record j of its policy i.
CallerEdit(i, j) ==
    /\ i \in 1..Len(heap[CallerRoot].items)
    /\ LET r == heap[CallerRoot].items[i] IN
       /\ heap[r].kind = "list"
       /\ j \in 1..Len(heap[r].items)
       /\ heap[r].items[j].t = "dict"
       /\ "type" \in DOMAIN heap[r].items[j].d
       /\ heap' = [heap EXCEPT ![r].items[j] = DelType(@)]
    /\ call' = [op |-> "caller"]
    /\ UNCHANGED <<module_dict, registered, inst>>

\* The sub-transform records of the model.
RecA == Dict([type |-> StrVal("A"), typename |-> StrVal("A")])

RecB == Dict([type |-> StrVal("B"), typename |-> StrVal("B")])

RecTypeOnly == Dict([type |-> StrVal("X")])

\* The policies the caller appends.
PolicyInputs ==
    {OtherObj, ListObj(<<>>), ListObj(<<RecA>>), ListObj(<<RecTypeOnly>>),
     ListObj(<<NotADict>>), ListObj(<<RecA, RecB>>)}

DataInputs == {[ok |-> TRUE, trace |-> <<>>], NoData}

\* The transform classes registered under 'pipeline'.
TransformClasses == {A1, B1}

\* The state once the transform classes are imported, each registered by
\* @registry.register_module('pipeline'); the caller holds an empty list of
\* policies.
InitAug ==
    /\ module_dict = [m \in {"pipeline"} |-> [n \in ClassNames |->
                          CHOOSE c \in TransformClasses : c.name = n]]
    /\ registered = {<<"pipeline", c.name, c>> : c \in TransformClasses}
    /\ call = NoCall
    /\ heap = [r \in Refs |-> IF r = CallerRoot THEN ListObj(<<>>) ELSE FreeObj]
    /\ inst = NoInst

DoConstruct ==
    \E isList \in BOOLEAN : Construct([isList |-> isList, ref |-> CallerRoot])

DoApply == \E data \in DataInputs : Apply(data)

DoCallerAppend == \E obj \in PolicyInputs : CallerAppend(obj)

DoCallerPop == CallerPop

DoCallerEdit ==
    \E i \in 1..Len(heap[CallerRoot].items) :
        \E j \in 1..Len(heap[heap[CallerRoot].items[i]].items) : CallerEdit(i, j)

NextAug ==
    \/ DoConstruct
    \/ DoApply
    \/ DoCallerAppend
    \/ DoCallerPop
    \/ DoCallerEdit

SpecAug == InitAug /\ [][NextAug]_vars

(***************************************************************************)
(* The claims.                                                             *)
(***************************************************************************)

\* What get answers for every (category, name) pair of the model.
Lookups(md) == [m \in ModuleNames |-> [n \in ClassNames |-> Get(md, n, m)]]

\* C1: constructing the Registry again is a no-op: a Registry() step leaves
\* the registered (module_name, class_name) pairs as they were, and every
\* class registered before is still returned by get afterwards.
C1_RegistryNewIsNoOp ==
    [][RegistryNew =>
         /\ module_dict' = module_dict
         /\ Lookups(module_dict') = Lookups(module_dict)]_vars

\* C2: contains(key) returns, without raising, the boolean that tells whether
\* get(key) with the default category succeeds.
C2_ContainsIsBoolean ==
    call.op = "contains" =>
        /\ call.exc = "none"
        /\ call.ret = (Get(module_dict, call.key, DefaultModule).exc = "none")

\* C3: registering a class whose name is already present in the category
\* raises DuplicateRegistration and leaves the registry as it was; registering
\* a name absent from the category succeeds, resolves to the new class there,
\* and leaves every other category (the same name in it included) as it was.
C3_DuplicateRejected ==
    (call.op = "register" /\ call.cls.isclass) =>
        LET m == call.module_name
            n == call.cls.name
            present == m \in DOMAIN call.before /\ n \in DOMAIN call.before[m]
        IN  IF present
            THEN /\ call.exc = DuplicateRegistration
                 /\ module_dict = call.before
            ELSE /\ call.exc = "none"
                 /\ Get(module_dict, n, m) = [exc |-> "none", val |-> call.cls]
                 /\ \A m2 \in ModuleNames \ {m}, n2 \in ClassNames :
                        Get(module_dict, n2, m2) = Get(call.before, n2, m2)
                 /\ \A n2 \in ClassNames \ {n} :
                        Get(module_dict, n2, m) = Get(call.before, n2, m)

\* A duplicate registration was rejected while the same name is registered,
\* with another class, under the other category.
C3_Witness ==
    /\ call.op = "register"
    /\ call.exc = DuplicateRegistration
    /\ \E m2 \in DOMAIN module_dict \ {call.module_name} :
        /\ call.cls.name \in DOMAIN module_dict[m2]
        /\ module_dict[m2][call.cls.name] # module_dict[call.module_name][call.cls.name]
        /\ module_dict[m2][call.cls.name] = call.cls

\* C4: in every reachable state get returns exactly the class of every
\* registration that has succeeded, raises NotFound for a category without
\* entries or a name never registered in it, and changes nothing.
C4_GetReturnsRegistered ==
    /\ \A r \in registered :
          Get(module_dict, r[2], r[1]) = [exc |-> "none", val |-> r[3]]
    /\ \A m \in ModuleNames, n \in ClassNames :
          (\A c \in Classes : <<m, n, c>> \notin registered) =>
              Get(module_dict, n, m).exc = NotFound
    /\ call.op = "get" => module_dict = call.before

\* The keyword arguments C5 states: cfg without typename, extended by the
\* default_args keys absent from cfg.
C5_Expected(cfg, da) ==
    [k \in (DOMAIN cfg \cup {x \in DOMAIN da : x \notin DOMAIN cfg}) \ {"typename"} |->
        IF k \in DOMAIN cfg THEN cfg[k] ELSE da[k]]

\* C5: for a cfg whose typename is a string registered in module_name,
\* build_from_registry calls the resolved class with cfg without typename,
\* extended by exactly the default_args keys absent from cfg; typename is
\* never passed.
C5_MergedKwargs ==
    (/\ call.op = "build_from_cfg"
     /\ call.cfg.t = "dict"
     /\ "typename" \in DOMAIN call.cfg.d
     /\ IsStr(call.cfg.d["typename"])
     /\ Get(module_dict, call.cfg.d["typename"].v, call.module_name).exc = "none"
     /\ IsRegistry(call.registry)
     /\ call.default_args.t \in {"dict", "None"}) =>
        /\ call.exc = "none"
        /\ call.cls = Get(module_dict, call.cfg.d["typename"].v, call.module_name).val
        /\ call.kwargs = C5_Expected(call.cfg.d, call.default_args.d)
        /\ "typename" \notin DOMAIN call.kwargs

\* C6: build_from_registry fails fast: the first check that fails, in the
\* order cfg is a mapping, cfg has typename, registry is a Registry,
\* default_args is a mapping or absent, typename is a string, raises its
\* error kind; then nothing is constructed and cfg, default_args and the
\* registry are as before the call.
C6_FailFast ==
    call.op = "build_from_cfg" =>
        LET notMapping == call.cfg.t # "dict"
            noTypename == ~notMapping /\ "typename" \notin DOMAIN call.cfg.d
            badRegistry == ~notMapping /\ ~noTypename /\ ~IsRegistry(call.registry)
            badDefaults == /\ ~notMapping /\ ~noTypename /\ ~badRegistry
                           /\ call.default_args.t \notin {"dict", "None"}
            badTypename == /\ ~notMapping /\ ~noTypename /\ ~badRegistry /\ ~badDefaults
                           /\ ~IsStr(call.cfg.d["typename"])
        IN  /\ notMapping => call.exc = InvalidArgumentType
            /\ noTypename => call.exc = MissingRequiredField
            /\ badRegistry => call.exc = InvalidArgumentType
            /\ badDefaults => call.exc = InvalidArgumentType
            /\ badTypename => call.exc = "TypeError"
            /\ (notMapping \/ noTypename \/ badRegistry \/ badDefaults \/ badTypename) =>
                  /\ call.exc # "none"
                  /\ call.cls = NoClass
                  /\ call.cfg_after = call.cfg
                  /\ call.default_args_after = call.default_args
                  /\ module_dict = call.before

\* build_from_registry rejected a typename that is not a string, after the
\* copy of a cfg with other keys was made, with a default_args mapping given.
C6_Witness ==
    /\ call.op = "build_from_cfg"
    /\ call.exc = "TypeError"
    /\ call.cfg.t = "dict"
    /\ DOMAIN call.cfg.d = {"typename", "a"}
    /\ ~IsStr(call.cfg.d["typename"])
    /\ IsRegistry(call.registry)
    /\ call.default_args.t = "dict"
    /\ call.cfg_after = call.cfg

\* The outcome of a build: the error kind, the class called and its keywords.
Outcome(r) == <<r.exc, r.cls, r.kwargs>>

\* C7 as stated: with the namespace of a registry category as module,
\* build_from_module and build_from_registry have the same outcome for every
\* cfg and default_args, the error kind included.
C7_SameOutcome ==
    call.op = "build_from_module" =>
        Outcome(call) =
            Outcome(BuildFromCfg(call.cfg, module_dict, "Registry",
                                 call.module_name, call.default_args))

\* C7 amended: the two builders have the same outcome, except when the
\* lookup itself fails (cfg and default_args pass the checks and typename is
\* a string that names no type of the namespace): there both fail and
\* construct nothing, build_from_module with AttributeError and
\* build_from_registry with KeyError.
C7_SameOutcomeButLookupError ==
    call.op = "build_from_module" =>
        LET r == BuildFromCfg(call.cfg, module_dict, "Registry",
                              call.module_name, call.default_args)
            unresolved ==
                /\ call.cfg.t = "dict"
                /\ "typename" \in DOMAIN call.cfg.d
                /\ call.default_args.t \in {"dict", "None"}
                /\ IsStr(call.cfg.d["typename"])
                /\ call.cfg.d["typename"].v \notin
                       DOMAIN Namespace(module_dict, call.module_name)
        IN  IF unresolved
            THEN /\ call.exc = "AttributeError"
                 /\ r.exc = "KeyError"
                 /\ call.cls = NoClass /\ r.cls = NoClass
            ELSE Outcome(call) = Outcome(r)

\* build_from_module built class A2 from the namespace of a category, with a
\* cfg value kept over its default and a missing key filled from the defaults.
C7_Witness ==
    /\ call.op = "build_from_module"
    /\ call.exc = "none"
    /\ call.cls = A2
    /\ call.kwargs = [a |-> IntVal("1"), b |-> IntVal("98")]
    /\ call.default_args.t = "dict"
    /\ DOMAIN call.default_args.d = {"a", "b"}

\* The policies C8 says are accepted: a non-empty list of non-empty lists of
\* mappings that each hold the key 'type'.
C8_WellFormed(isList, policies) ==
    /\ isList
    /\ Len(policies) > 0
    /\ \A i \in 1..Len(policies) :
          /\ policies[i].kind = "list"
          /\ Len(policies[i].items) > 0
          /\ \A j \in 1..Len(policies[i].items) :
                /\ policies[i].items[j].t = "dict"
                /\ "type" \in DOMAIN policies[i].items[j].d

\* C8: AutoAugment(policies) succeeds exactly when policies is well formed,
\* then with one composed pipeline per policy; it raises Validation, and no
\* instance results, otherwise.
C8_AcceptsExactlyWellFormed ==
    call.op = "AutoAugment" =>
        LET wf == C8_WellFormed(call.isList, call.policies) IN
        /\ wf <=> call.exc = "none"
        /\ ~wf => (call.exc = Validation /\ ~inst.built)
        /\ call.exc = "none" =>
              (inst.built /\ Len(inst.transforms) = Len(call.policies))

\* C9: once the instance is constructed, no step (an apply call, a mutation
\* by the caller of the list it passed) changes the instance's policies or
\* its list of composed pipelines.
C9_InstanceFrozen ==
    [][inst.built =>
         /\ inst' = inst
         /\ PoliciesView(heap', inst.policies) = PoliciesView(heap, inst.policies)]_vars

\* The instance was applied after the caller edited a record of the first
\* policy it had passed: the caller's policy differs from the instance's.
C9_Witness ==
    /\ inst.built
    /\ call.op = "apply"
    /\ Len(heap[CallerRoot].items) > 0
    /\ PoliciesView(heap, CallerRoot)[1] # PoliciesView(heap, inst.policies)[1]
    /\ PoliciesView(heap, CallerRoot)[1].kind = "list"
    /\ Len(PoliciesView(heap, CallerRoot)[1].items) =
           Len(PoliciesView(heap, inst.policies)[1].items)

\* C10: an apply call returns the outcome (result or failure) of exactly one
\* of the pipelines built at construction, applied to the record; and at
\* every call each of these pipelines can be the one selected.
C10_AppliesOnePrebuilt ==
    /\ call.op = "apply" =>
          /\ call.chosen \in 1..Len(inst.transforms)
          /\ [exc |-> call.exc, ret |-> call.ret] =
                 ComposeCall(inst.transforms[call.chosen], call.data)
    /\ inst.built =>
          \A i \in 1..Len(inst.transforms), d \in DataInputs :
              ENABLED ApplyChosen(i, d)

\* The second of two pipelines was applied, and had been selected by the
\* call before as well.
C10_Witness ==
    /\ call.op = "apply"
    /\ Len(inst.transforms) = 2
    /\ call.chosen = 2
    /\ call.previous = 2
    /\ call.exc = "none"
    /\ call.ret.trace = <<"A1", "B1">>

====
